---- MODULE Spec2Model ----
(***************************************************************************)
(* Translation cache pipeline of Duckov-Mod-Manager:                       *)
(*   - OfflineTranslationService (lazy model load, cache-first translate)   *)
(*   - Database (translations table with expiry)                            *)
(* Every async method is cut at its await points; one action is the code    *)
(* that runs between two suspension points.                                 *)
(***************************************************************************)
EXTENDS Integers, Sequences, FiniteSets, TLC

\* ---------------------------------------------------------------- bounds
NumCalls == 2          \* number of service calls issued in one behaviour
TodsPerDay == 2        \* clock resolution: instants per calendar day

\* ------------------------------------------------------ program constants
CacheExpiryDays == 30  \* TRANSLATION_CACHE_TTL_DAYS default
CharT == 84            \* 'T', 11th character of Date.toISOString()
CharSpace == 32        \* ' ', 11th character of SQLite CURRENT_TIMESTAMP

NULL == 0

Callers == 1..NumCalls
Tods == 0..(TodsPerDay - 1)
\* the calendar days the clock visits: the first day, the day one cache TTL
\* later, and the day after that
Days == {0, CacheExpiryDays, CacheExpiryDays + 1}

\* Texts handed to translate(): sequences of characters.
Texts == { <<>>, <<" ">>, <<"a">>, <<" ", "b">> }

VARIABLES
  translator,            \* OfflineTranslationService.translator (NULL or handle)
  isInitializing,        \* OfflineTranslationService.isInitializing
  initializationPromise, \* OfflineTranslationService.initializationPromise (NULL or load id)
  stats,                 \* OfflineTranslationService.stats
  loads,                 \* one entry per pipeline() invocation: its promise state
  inferCalls,            \* number of invocations of the loaded translator
  dbQueries,             \* number of statements handed to the store
  dbState,               \* Database.db: "null", "open" or "closed"
  rows,                  \* rows of table translations
  now,                   \* wall clock [day, tod]
  calls,                 \* the service calls: position and locals of each
  mods,                  \* rows of table mods: id -> <<>> or <<row>>
  scan,                  \* ModService.scanAndSyncLocalMods: position and locals
  content,               \* the last translateModContent call and its result
  exportCall,            \* ModService.exportMods: position, locals and outcome
  batch                  \* translateBatch: position, locals and its translate calls

vars == <<translator, isInitializing, initializationPromise, stats, loads,
          inferCalls, dbQueries, dbState, rows, now, calls, mods, scan,
          content, exportCall, batch>>

modVars == <<mods, scan, content, exportCall, batch>>

engineVars == <<translator, isInitializing, initializationPromise, loads>>

\* ------------------------------------------------------- string handling
IsWhitespace(ch) == ch = " "

RECURSIVE TrimStart(_)
TrimStart(s) ==
  IF s = <<>> THEN s
  ELSE IF IsWhitespace(Head(s)) THEN TrimStart(Tail(s)) ELSE s

RECURSIVE TrimEnd(_)
TrimEnd(s) ==
  IF s = <<>> THEN s
  ELSE IF IsWhitespace(s[Len(s)]) THEN TrimEnd(SubSeq(s, 1, Len(s) - 1)) ELSE s

Trim(s) == TrimEnd(TrimStart(s))

\* translate(): if (!text || text.trim().length === 0) return text
\* the emptiness test without the trim
IsBlankNoTrim(text) == text = <<>>
IsBlank(text) == text = <<>> \/ Len(Trim(text)) = 0

\* ------------------------------------------------------------ timestamps
\* A timestamp string is compared by SQLite as TEXT, character by character.
\* Both renderings start with the 10 characters of the date (YYYY-MM-DD,
\* ordered like the day number); they differ in the 11th character.
RECURSIVE LexLess(_, _)
LexLess(s, t) ==
  IF s = <<>> THEN t # <<>>
  ELSE IF t = <<>> THEN FALSE
  ELSE IF Head(s) # Head(t) THEN Head(s) < Head(t)
  ELSE LexLess(Tail(s), Tail(t))

ToISOString(t) == <<t.day, CharT, t.tod>>
CurrentTimestamp == <<now.day, CharSpace, now.tod>>

\* saveTranslation(): expiresAt = new Date(); setDate(getDate() + ttl)
ExpiresAt == [day |-> now.day + CacheExpiryDays, tod |-> now.tod]

\* the instant a stored expires_at string denotes (new Date(row.expires_at))
ParseISO(s) == [day |-> s[1], tod |-> s[3]]
TimeLess(a, b) == a.day < b.day \/ (a.day = b.day /\ a.tod < b.tod)
HasExpired(r) == TimeLess(ParseISO(r.expires_at), now)
StillValid(r) == TimeLess(now, ParseISO(r.expires_at))

\* ------------------------------------------------------------- the store
DbUsable == dbState = "open"

Key(text, src, tgt) == <<text, src, tgt>>
KeyOf(r) == <<r.original_text, r.source_lang, r.target_lang>>

\* the expiry comparison with its operands swapped
NotExpiredSqlSwapped(r) == LexLess(r.expires_at, CurrentTimestamp)
\* WHERE ... AND expires_at > CURRENT_TIMESTAMP
NotExpiredSql(r) == LexLess(CurrentTimestamp, r.expires_at)
\* WHERE expires_at < CURRENT_TIMESTAMP
ExpiredSql(r) == LexLess(r.expires_at, CurrentTimestamp)

GetTranslationRows(text, src, tgt) ==
  { r \in rows : KeyOf(r) = Key(text, src, tgt) /\ NotExpiredSql(r) }

\* Database.getTranslation on an open store: <<>> (null) or <<row>>
GetTranslation(text, src, tgt) ==
  IF GetTranslationRows(text, src, tgt) = {} THEN <<>>
  ELSE <<CHOOSE r \in GetTranslationRows(text, src, tgt) : TRUE>>

\* a plain INSERT, which keeps the row already stored for the key
SaveTranslationInsert(text, translation, src, tgt) ==
  rows \cup { [original_text |-> text, translated_text |-> translation,
               source_lang |-> src, target_lang |-> tgt,
               expires_at |-> ToISOString(ExpiresAt)] }
\* Database.saveTranslation on an open store: INSERT OR REPLACE
SaveTranslation(text, translation, src, tgt) ==
  { r \in rows : KeyOf(r) # Key(text, src, tgt) }
    \cup { [original_text |-> text, translated_text |-> translation,
            source_lang |-> src, target_lang |-> tgt,
            expires_at |-> ToISOString(ExpiresAt)] }

GetTranslationCount == Cardinality({ r \in rows : NotExpiredSql(r) })

\* a delete without the expiry condition
ClearEveryRow == rows
ClearExpiredRows == { r \in rows : ExpiredSql(r) }
ClearExpiredTranslations == rows \ ClearExpiredRows


\* ------------------------------------------------------ the opaque model
ModelShapes == {"direct", "array", "none"}
Translation(text) == <<"T">> \o text

\* result.translation_text || result[0]?.translation_text || text
ExtractTranslation(shape, text) ==
  IF shape = "direct" THEN Translation(text)
  ELSE IF shape = "array" THEN Translation(text)
  ELSE text

\* --------------------------------------------------------- service calls
IdleCall == [op |-> "none", pc |-> "idle", text |-> <<>>, awaiting |-> NULL,
             translatedText |-> <<>>, result |-> <<>>, outcome |-> "none",
             err |-> "none", via |-> "none"]

Returned(call, value, how) ==
  [call EXCEPT !.pc = "done", !.outcome = "returned", !.result = value,
               !.via = how, !.awaiting = NULL, !.translatedText = <<>>]

Threw(call, cause) ==
  [call EXCEPT !.pc = "done", !.outcome = "threw", !.err = cause,
               !.awaiting = NULL, !.translatedText = <<>>]

\* translate(): catch (error) { ...; return text } around the whole body
CatchRethrowsInference(cause) == cause # "infer"
CatchReturnsOriginal(cause) == TRUE

\* what a call does with an error raised at one of its awaits
Fail(call, cause) ==
  IF call.op = "translate" THEN
    IF CatchReturnsOriginal(cause)
      THEN [Returned(call, call.text, "fallback") EXCEPT !.err = cause]
      ELSE Threw(call, cause)
  ELSE IF call.op = "validateConfiguration" THEN
    [Returned(call, <<"invalid">>, "validate") EXCEPT !.err = cause]
  ELSE Threw(call, cause)

\* initialize(): if (this.translator) return
NeverInitialized == FALSE
AlreadyInitialized == translator # NULL

\* initialize(): if (this.isInitializing && this.initializationPromise)
NeverJoinsOngoing == FALSE
JoinsOngoing == isInitializing /\ initializationPromise # NULL

\* initialize(): finally { isInitializing = false; initializationPromise = null }
FinallyKeepsFailedPromise(p, status) == IF status = "rejected" THEN p ELSE NULL
FinallyPromise(p, status) == NULL
FinallyKeepsFailedFlag(status) == status = "rejected"
FinallyIsInitializing(status) == FALSE

\* the caller's continuation once initialize() has returned normally
AfterInit(call) ==
  IF call.op = "initialize" THEN Returned(call, <<>>, "init")
  ELSE [call EXCEPT !.pc = "afterInit"]

\* initialize() up to its first await
EnterInitialize(c, call) ==
  IF AlreadyInitialized THEN
    /\ calls' = [calls EXCEPT ![c] = AfterInit(call)]
    /\ UNCHANGED engineVars
  ELSE IF JoinsOngoing THEN
    /\ calls' = [calls EXCEPT ![c] =
                   [call EXCEPT !.pc = "initWait", !.awaiting = initializationPromise]]
    /\ UNCHANGED engineVars
  ELSE
    /\ isInitializing' = TRUE
    /\ loads' = Append(loads, "pending")
    /\ initializationPromise' = Len(loads) + 1
    /\ calls' = [calls EXCEPT ![c] =
                   [call EXCEPT !.pc = "initOwner", !.awaiting = Len(loads) + 1]]
    /\ UNCHANGED translator

CanStart(c) == calls[c].pc = "idle" /\ \A d \in Callers : d < c => calls[d].pc # "idle"

\* translate(text) up to the await of database.getTranslation
StartTranslate(c, text) ==
  /\ CanStart(c)
  /\ LET call == [IdleCall EXCEPT !.op = "translate", !.text = text] IN
     IF IsBlank(text) THEN
       /\ calls' = [calls EXCEPT ![c] = Returned(call, text, "noop")]
       /\ UNCHANGED <<stats, dbQueries>>
     ELSE
       /\ stats' = [stats EXCEPT !.totalTranslations = @ + 1]
       /\ dbQueries' = dbQueries + 1
       /\ calls' = [calls EXCEPT ![c] =
                      IF dbState = "null" THEN Fail(call, "store")
                      ELSE [call EXCEPT !.pc = "lookup"]]
  /\ UNCHANGED <<engineVars, inferCalls, dbState, rows, now>>
  /\ UNCHANGED modVars

\* translate(): the cache lookup completes; hit, or miss and initialize()
Lookup(c) ==
  /\ calls[c].pc = "lookup"
  /\ LET call == calls[c]
         cached == GetTranslation(call.text, "zh", "en") IN
     IF ~DbUsable THEN
       /\ calls' = [calls EXCEPT ![c] = Fail(call, "store")]
       /\ UNCHANGED <<engineVars, stats>>
     ELSE IF cached # <<>> /\ cached[1].translated_text # <<>> THEN
       /\ stats' = [stats EXCEPT !.cacheHits = @ + 1]
       /\ calls' = [calls EXCEPT ![c] = Returned(call, cached[1].translated_text, "hit")]
       /\ UNCHANGED engineVars
     ELSE
       /\ stats' = [stats EXCEPT !.cacheMisses = @ + 1]
       /\ EnterInitialize(c, call)
  /\ UNCHANGED <<inferCalls, dbQueries, dbState, rows, now>>
  /\ UNCHANGED modVars

\* initialize() called directly
StartInitialize(c) ==
  /\ CanStart(c)
  /\ EnterInitialize(c, [IdleCall EXCEPT !.op = "initialize"])
  /\ UNCHANGED <<stats, inferCalls, dbQueries, dbState, rows, now>>
  /\ UNCHANGED modVars

\* validateConfiguration() up to the await of initialize()
StartValidate(c) ==
  /\ CanStart(c)
  /\ EnterInitialize(c, [IdleCall EXCEPT !.op = "validateConfiguration"])
  /\ UNCHANGED <<stats, inferCalls, dbQueries, dbState, rows, now>>
  /\ UNCHANGED modVars

\* loadModel(): await pipeline(...) resolves
LoadSucceed ==
  /\ \E p \in 1..Len(loads) :
       /\ loads[p] = "pending"
       /\ translator' = p
       /\ loads' = [loads EXCEPT ![p] = "resolved"]
  /\ stats' = [stats EXCEPT !.modelLoadTime = 1]
  /\ UNCHANGED <<isInitializing, initializationPromise, inferCalls, dbQueries,
                 dbState, rows, now, calls>>
  /\ UNCHANGED modVars

\* loadModel(): await pipeline(...) rejects; the error is wrapped and rethrown
LoadFail ==
  /\ \E p \in 1..Len(loads) :
       /\ loads[p] = "pending"
       /\ loads' = [loads EXCEPT ![p] = "rejected"]
  /\ UNCHANGED <<translator, isInitializing, initializationPromise, stats,
                 inferCalls, dbQueries, dbState, rows, now, calls>>
  /\ UNCHANGED modVars

\* initialize() of the call that started the load: finally block, then
\* return or rethrow
InitOwnerResume(c) ==
  /\ calls[c].pc = "initOwner"
  /\ loads[calls[c].awaiting] # "pending"
  /\ LET status == loads[calls[c].awaiting] IN
     /\ isInitializing' = FinallyIsInitializing(status)
     /\ initializationPromise' = FinallyPromise(calls[c].awaiting, status)
     /\ calls' = [calls EXCEPT ![c] =
                    IF status = "resolved" THEN AfterInit(calls[c])
                    ELSE Fail(calls[c], "init")]
  /\ UNCHANGED <<translator, loads, stats, inferCalls, dbQueries, dbState,
                 rows, now>>
  /\ UNCHANGED modVars

\* initialize() of a call that joined an ongoing load: the shared promise
\* settles (its reaction runs after the starter's, which subscribed first)
InitWaiterResume(c) ==
  /\ calls[c].pc = "initWait"
  /\ loads[calls[c].awaiting] # "pending"
  /\ ~ \E o \in Callers : calls[o].pc = "initOwner" /\ calls[o].awaiting = calls[c].awaiting
  /\ calls' = [calls EXCEPT ![c] =
                 IF loads[calls[c].awaiting] = "resolved" THEN AfterInit(calls[c])
                 ELSE Fail(calls[c], "init")]
  /\ UNCHANGED <<engineVars, stats, inferCalls, dbQueries, dbState, rows, now>>
  /\ UNCHANGED modVars

\* translate(): the translator check and the model invocation
Infer(c) ==
  /\ calls[c].pc = "afterInit"
  /\ calls[c].op = "translate"
  /\ IF translator = NULL THEN
       /\ calls' = [calls EXCEPT ![c] = Fail(calls[c], "nomodel")]
       /\ UNCHANGED <<inferCalls, dbQueries>>
     ELSE
       /\ inferCalls' = inferCalls + 1
       /\ \/ /\ calls' = [calls EXCEPT ![c] = Fail(calls[c], "infer")]
             /\ UNCHANGED dbQueries
          \/ \E shape \in ModelShapes :
               /\ calls' = [calls EXCEPT ![c] =
                    [calls[c] EXCEPT !.pc = "save",
                       !.translatedText = ExtractTranslation(shape, calls[c].text)]]
               /\ dbQueries' = dbQueries + 1
  /\ UNCHANGED <<engineVars, stats, dbState, rows, now>>
  /\ UNCHANGED modVars

\* the write of saveTranslation, skipped
SkipsSave(text, translation, src, tgt) == rows
\* translate(): await database.saveTranslation(...); return translatedText
SaveResult(text, translation, src, tgt) == SaveTranslation(text, translation, src, tgt)

Save(c) ==
  /\ calls[c].pc = "save"
  /\ IF ~DbUsable THEN
       /\ calls' = [calls EXCEPT ![c] = Fail(calls[c], "save")]
       /\ UNCHANGED rows
     ELSE
       /\ rows' = SaveResult(calls[c].text, calls[c].translatedText, "zh", "en")
       /\ calls' = [calls EXCEPT ![c] = Returned(calls[c], calls[c].translatedText, "model")]
  /\ UNCHANGED <<engineVars, stats, inferCalls, dbQueries, dbState, now>>
  /\ UNCHANGED modVars

\* validateConfiguration(): translator check and the test translation
ValidateTest(c) ==
  /\ calls[c].pc = "afterInit"
  /\ calls[c].op = "validateConfiguration"
  /\ IF translator = NULL THEN
       /\ calls' = [calls EXCEPT ![c] = Returned(calls[c], <<"invalid">>, "validate")]
       /\ UNCHANGED inferCalls
     ELSE
       /\ inferCalls' = inferCalls + 1
       /\ \/ calls' = [calls EXCEPT ![c] = Fail(calls[c], "infer")]
          \/ \E shape \in ModelShapes :
               calls' = [calls EXCEPT ![c] =
                 Returned(calls[c],
                          IF shape = "none" THEN <<"invalid">> ELSE <<"valid">>,
                          "validate")]
  /\ UNCHANGED <<engineVars, stats, dbQueries, dbState, rows, now>>
  /\ UNCHANGED modVars

\* clearCache() up to the await of database.clearExpiredTranslations
StartClearCache(c) ==
  /\ CanStart(c)
  /\ dbQueries' = dbQueries + 1
  /\ LET call == [IdleCall EXCEPT !.op = "clearCache"] IN
     calls' = [calls EXCEPT ![c] =
                 IF dbState = "null" THEN Threw(call, "store")
                 ELSE [call EXCEPT !.pc = "clearing"]]
  /\ UNCHANGED <<engineVars, stats, inferCalls, dbState, rows, now>>
  /\ UNCHANGED modVars

\* clearCache(): the delete completes; the statistics are reset
ClearCache(c) ==
  /\ calls[c].pc = "clearing"
  /\ IF ~DbUsable THEN
       /\ calls' = [calls EXCEPT ![c] = Threw(calls[c], "store")]
       /\ UNCHANGED <<rows, stats>>
     ELSE
       /\ rows' = ClearExpiredTranslations
       /\ stats' = [stats EXCEPT !.cacheHits = 0, !.cacheMisses = 0,
                                 !.totalTranslations = 0]
       /\ calls' = [calls EXCEPT ![c] =
                      Returned(calls[c], <<Cardinality(ClearExpiredRows)>>, "clear")]
  /\ UNCHANGED <<engineVars, inferCalls, dbQueries, dbState, now>>
  /\ UNCHANGED modVars

\* --------------------------------------------------------- environment
\* Database.initialize(): the connection opens
DbInitialize ==
  /\ dbState = "null"
  /\ dbState' = "open"
  /\ UNCHANGED <<engineVars, stats, inferCalls, dbQueries, rows, now, calls>>
  /\ UNCHANGED modVars

\* Database.close()
DbClose ==
  /\ dbState = "open"
  /\ dbState' = "closed"
  /\ UNCHANGED <<engineVars, stats, inferCalls, dbQueries, rows, now, calls>>
  /\ UNCHANGED modVars

\* time passes
Tick ==
  /\ \E day \in Days, tod \in Tods :
       /\ TimeLess(now, [day |-> day, tod |-> tod])
       /\ now' = [day |-> day, tod |-> tod]
  /\ UNCHANGED <<engineVars, stats, inferCalls, dbQueries, dbState, rows, calls>>
  /\ UNCHANGED modVars

\* ------------------------------------------------------------ mod rows
ModTtlDays == 7        \* TRANSLATION_CACHE_TTL_DAYS || '7' in ModService

\* the ids of the local mod folders, in the order scanLocalMods lists them
ModIds == {1, 2}
NumMods == Cardinality(ModIds)
NoText == <<>>                       \* null, undefined or ''
NoTime == [day |-> -1, tod |-> 0]    \* no Date

IdleScan == [variant |-> "none", stage |-> "idle", idx |-> 0,
             synced |-> <<>>, errors |-> <<>>, marked |-> FALSE,
             invoked |-> FALSE,
             previous |-> <<>>, cur |-> <<>>, changed |-> FALSE]

NoContent == [title |-> NoText, description |-> NoText,
              titleFailure |-> "none", descriptionFailure |-> "none",
              translatedTitle |-> NoText, translatedDescription |-> NoText]

\* no translateBatch call has been made
IdleBatch == [stage |-> "idle", texts |-> <<>>, first |-> 0, pcs |-> <<>>,
              returned |-> <<>>, results |-> <<>>]

\* no exportMods call has been made
IdleExport == [stage |-> "idle", modIds |-> <<>>, existing |-> {},
               modPaths |-> <<>>, missingMods |-> <<>>, archived |-> <<>>,
               outcome |-> "none", exportedCount |-> 0, err |-> "none"]

Init ==
  /\ translator = NULL
  /\ isInitializing = FALSE
  /\ initializationPromise = NULL
  /\ stats = [totalTranslations |-> 0, cacheHits |-> 0, cacheMisses |-> 0,
              modelLoadTime |-> 0]
  /\ loads = <<>>
  /\ inferCalls = 0
  /\ dbQueries = 0
  /\ dbState = "null"
  /\ rows = {}
  /\ now = [day |-> 0, tod |-> 0]
  /\ calls = [c \in Callers |-> IdleCall]
  /\ mods = [id \in ModIds |-> <<>>]
  /\ scan = IdleScan
  /\ content = NoContent
  /\ exportCall = IdleExport
  /\ batch = IdleBatch

Next ==
  \/ \E c \in Callers, text \in Texts : StartTranslate(c, text)
  \/ \E c \in Callers : Lookup(c)
  \/ \E c \in Callers : StartInitialize(c)
  \/ \E c \in Callers : StartValidate(c)
  \/ LoadSucceed
  \/ LoadFail
  \/ \E c \in Callers : InitOwnerResume(c)
  \/ \E c \in Callers : InitWaiterResume(c)
  \/ \E c \in Callers : Infer(c)
  \/ \E c \in Callers : Save(c)
  \/ \E c \in Callers : ValidateTest(c)
  \/ \E c \in Callers : StartClearCache(c)
  \/ \E c \in Callers : ClearCache(c)
  \/ DbInitialize
  \/ DbClose
  \/ Tick

Spec == Init /\ [][Next]_vars


\* ------------------------------------------- the store, called directly
\* arguments of direct Database.saveTranslation calls: keys that differ in
\* the text or in the target language
StoreKeys == { Key(<<"a">>, "zh", "en"), Key(<<"a">>, "zh", "fr"),
               Key(<<" ", "b">>, "zh", "en") }
StoreTranslations(text) == { Translation(text), <<"T">> \o Translation(text) }

\* Database.saveTranslation(text, translation, sourceLang, targetLang)
DbSaveTranslation(text, translation, src, tgt) ==
  /\ DbUsable
  /\ rows' = SaveTranslation(text, translation, src, tgt)
  /\ dbQueries' = dbQueries + 1
  /\ UNCHANGED <<engineVars, stats, inferCalls, dbState, now, calls>>
  /\ UNCHANGED modVars

\* Database.clearAllTranslations(): DELETE FROM translations
DbClearAllTranslations ==
  /\ DbUsable
  /\ rows # {}
  /\ rows' = {}
  /\ dbQueries' = dbQueries + 1
  /\ UNCHANGED <<engineVars, stats, inferCalls, dbState, now, calls>>
  /\ UNCHANGED modVars

MaxStoreCalls == 3     \* direct store calls in one behaviour

NextStore ==
  \/ \E k \in StoreKeys : \E translation \in StoreTranslations(k[1]) :
       /\ dbQueries < MaxStoreCalls
       /\ DbSaveTranslation(k[1], translation, k[2], k[3])
  \/ /\ dbQueries < MaxStoreCalls
     /\ DbClearAllTranslations
  \/ \E c \in Callers : StartClearCache(c)
  \/ \E c \in Callers : ClearCache(c)
  \/ DbInitialize
  \/ DbClose
  \/ Tick

SpecStore == Init /\ [][NextStore]_vars

\* ------------------------------------------------ translateModContent
\* characters of the CJK range tested by /[一-龥]/
ChineseChars == {"zh1", "zh2", "zh3"}
HasChinese(s) == \E i \in 1..Len(s) : s[i] \in ChineseChars

\* the opaque model on the characters of mod texts; its output is left
\* unchanged when it is translated again
EngineChar(ch) ==
  CASE ch = "zh1" -> "E1" [] ch = "zh2" -> "E2" [] ch = "zh3" -> "E3"
    [] ch = "m" -> "M" [] ch = "l" -> "L" [] ch = "n" -> "N"
    [] OTHER -> ch
EngineTranslate(text) == [i \in 1..Len(text) |-> EngineChar(text[i])]

\* what makes one translate() call fail: nothing, the model load, the
\* inference or the store
Failures == {"none", "init", "infer", "store"}

\* translate(text) as seen by its caller: does it reject, and what it returns
TranslateThrows(text, failure) ==
  ~IsBlank(text) /\ failure # "none" /\ ~CatchReturnsOriginal(failure)
TranslateReturn(text, failure) ==
  IF IsBlank(text) THEN text
  ELSE IF failure = "none" THEN EngineTranslate(text)
  ELSE text

\* translateModContent(title, description): Promise.all of two translate
\* calls; the catch returns both originals
TranslateModContent(title, description, fT, fD) ==
  IF TranslateThrows(title, fT) \/ TranslateThrows(description, fD)
    THEN [translatedTitle |-> title, translatedDescription |-> description]
    ELSE [translatedTitle |-> TranslateReturn(title, fT),
          translatedDescription |-> TranslateReturn(description, fD)]

\* the failure that a translate call of this text met
Met(text, failure) == IF IsBlank(text) THEN "none" ELSE failure

ContentTexts == { <<>>, <<"zh1">>, <<"zh2">>, <<"zh3">> }

TranslateModContentCall(title, description, fT, fD) ==
  /\ content' =
       [title |-> title, description |-> description,
        titleFailure |-> Met(title, fT),
        descriptionFailure |-> Met(description, fD),
        translatedTitle |->
          TranslateModContent(title, description, fT, fD).translatedTitle,
        translatedDescription |->
          TranslateModContent(title, description, fT, fD).translatedDescription]
  /\ UNCHANGED <<engineVars, stats, inferCalls, dbQueries, dbState, rows, now,
                 calls, mods, scan, exportCall, batch>>

NextContent ==
  \E title \in ContentTexts, description \in ContentTexts :
    \E fT \in Failures, fD \in Failures :
      TranslateModContentCall(title, description, fT, fD)

SpecContent == Init /\ [][NextContent]_vars

\* ------------------------------------------------------------ ModService
\* texts of mod rows
\* steamMod.title and steamMod.description: a pair, the same with another
\* title, and the same with no description
SteamContents == { [title |-> <<"zh1">>, description |-> <<"zh3">>],
                   [title |-> <<"zh2">>, description |-> <<"zh3">>],
                   [title |-> <<"zh1">>, description |-> <<>>] }
NoDescription == <<"n">>                         \* 'No description available'
LocalTitle == <<"m">>                            \* `Mod ${modId}`
LocalDescription == <<"l">>                      \* 'Local mod in workshop folder'

\* failures a translate call inside a scan can meet
ScanFailures == {"none", "infer"}

\* instants handed in by the environment (folder mtime, Steam time_updated):
\* the first instant of the clock, or the present one
FirstInstant == [day |-> 0, tod |-> 0]
PastTimes == {FirstInstant, now}

\* Database.mapRowToMod: translated text is preferred for title/description
MapRowToMod(row) ==
  [row EXCEPT
     !.title = IF row.translatedTitle # NoText THEN row.translatedTitle
               ELSE row.title,
     !.description = IF row.translatedDescription # NoText
                     THEN row.translatedDescription ELSE row.description]

\* Database.getMod on an open store: <<>> (null) or <<mod>>
GetMod(id) == IF mods[id] = <<>> THEN <<>> ELSE <<MapRowToMod(mods[id][1])>>

\* Database.saveMod on an open store: INSERT OR REPLACE of the whole row
SaveMod(mod) == [mods EXCEPT ![mod.id] = <<mod>>]

\* expiryDate = new Date(); setDate(getDate() - cacheExpiryDays)
ExpiryDate == [day |-> now.day - ModTtlDays, tod |-> now.tod]

\* ModService.shouldTranslateMod (offline variant)
ShouldTranslateMod(mod, existingMod) ==
  IF existingMod = <<>> THEN TRUE
  ELSE IF existingMod[1].lastTranslated = NoTime THEN TRUE
  ELSE IF TimeLess(existingMod[1].lastTranslated, mod.timeUpdated) THEN TRUE
  ELSE IF TimeLess(existingMod[1].lastTranslated, ExpiryDate) THEN TRUE
  ELSE FALSE

\* needsTranslation of the Steam variant
NeedsTranslation(mod, contentChanged) ==
  contentChanged \/ mod.translatedTitle = NoText
                 \/ mod.translatedDescription = NoText

\* translateMod: "translation is still valid" early return
TranslationStillValid(mod, forceRetranslate) ==
  /\ ~forceRetranslate
  /\ mod.translatedTitle # NoText
  /\ mod.translatedDescription # NoText
  /\ mod.lastTranslated # NoTime
  /\ TimeLess(ExpiryDate, mod.lastTranslated)

\* originals overwritten by the current title and description
OverwritesOriginals(mod) ==
  [mod EXCEPT !.originalTitle = mod.title,
              !.originalDescription = mod.description]
\* if (!mod.originalTitle) mod.originalTitle = mod.title (and description)
WithOriginals(mod) ==
  [mod EXCEPT
     !.originalTitle = IF @ = NoText THEN mod.title ELSE @,
     !.originalDescription = IF @ = NoText THEN mod.description ELSE @]

\* some field of the call was produced by the model
EngineSucceeded(title, description, fT, fD) ==
  \/ ~IsBlank(title) /\ fT = "none"
  \/ ~IsBlank(description) /\ fD = "none"

\* a translateMod that leaves the originals as they are
TranslateModKeepsOriginals(mod, fT, fD) ==
  LET t == TranslateModContent(mod.title, mod.description, fT, fD)
  IN [mod EXCEPT !.translatedTitle = t.translatedTitle,
                 !.translatedDescription = t.translatedDescription,
                 !.lastTranslated = now,
                 !.language = "zh",
                 !.engineOutput =
                    EngineSucceeded(mod.title, mod.description, fT, fD)]
\* translateMod (offline variant) past the early return: the mod it saves
TranslateModOffline(mod, fT, fD) ==
  LET m == WithOriginals(mod)
      t == TranslateModContent(m.title, m.description, fT, fD)
  IN [m EXCEPT !.translatedTitle = t.translatedTitle,
               !.translatedDescription = t.translatedDescription,
               !.lastTranslated = now,
               !.language = "zh",
               !.engineOutput = EngineSucceeded(m.title, m.description, fT, fD)]

\* translateMod (Steam variant) calls translateModContent only when a field
\* holds Chinese characters
CallsEngineSteam(mod) == HasChinese(mod.title) \/ HasChinese(mod.description)

\* both fields handed to translateModContent as they are
SendsEveryField(mod) ==
  [title |-> mod.title, description |-> mod.description]
\* translateModContent(titleHasChinese ? mod.title : '',
\*                     descriptionHasChinese ? mod.description : '')
EngineInputSteam(mod) ==
  [title |-> IF HasChinese(mod.title) THEN mod.title ELSE NoText,
   description |-> IF HasChinese(mod.description) THEN mod.description
                   ELSE NoText]

\* translateMod (Steam variant) past the early return: the mod it saves
TranslateModSteam(mod, fT, fD) ==
  LET m == WithOriginals(mod)
      tIn == EngineInputSteam(m).title
      dIn == EngineInputSteam(m).description
      t == TranslateModContent(tIn, dIn, fT, fD)
  IN [m EXCEPT
        !.translatedTitle =
           IF CallsEngineSteam(m) /\ HasChinese(m.title)
             THEN t.translatedTitle ELSE m.title,
        !.translatedDescription =
           IF CallsEngineSteam(m) /\ HasChinese(m.description)
             THEN t.translatedDescription ELSE m.description,
        !.lastTranslated = now,
        !.language = IF CallsEngineSteam(m) THEN "zh" ELSE m.language,
        !.engineOutput = CallsEngineSteam(m) /\ EngineSucceeded(tIn, dIn, fT, fD)]

\* ------------------------------------------------ scanAndSyncLocalMods
\* the loop index after an item whose processing threw
AbortsScan(idx) == NumMods + 1
\* the try/catch is inside the for loop: the next id is processed
AfterThrow(idx) == idx + 1

\* catch (error) { errors.push(...) }
Thrown(sc) ==
  [sc EXCEPT !.errors = Append(@, sc.idx), !.idx = AfterThrow(sc.idx),
             !.stage = "fetch", !.previous = <<>>, !.cur = <<>>,
             !.changed = FALSE,
             !.marked = FALSE, !.invoked = FALSE]
\* errors.push(...); continue
Skipped(sc) ==
  [sc EXCEPT !.errors = Append(@, sc.idx), !.idx = sc.idx + 1,
             !.stage = "fetch", !.previous = <<>>, !.cur = <<>>,
             !.changed = FALSE,
             !.marked = FALSE, !.invoked = FALSE]
\* synced.push(mod)
Synced(sc) ==
  [sc EXCEPT !.synced = Append(@, sc.idx), !.idx = sc.idx + 1,
             !.stage = "fetch", !.previous = <<>>, !.cur = <<>>,
             !.changed = FALSE,
             !.marked = FALSE, !.invoked = FALSE]

cacheVars == <<engineVars, stats, inferCalls, dbQueries, rows, calls, content,
               exportCall, batch>>

\* scanAndSyncLocalMods(): scanLocalMods() lists the local folders
StartScan(variant) ==
  /\ scan.stage = "idle"
  /\ scan' = [IdleScan EXCEPT !.variant = variant, !.stage = "fetch", !.idx = 1]
  /\ UNCHANGED <<cacheVars, dbState, now, mods>>

\* the loop is over: return { scanned, synced, errors }; the locals are gone
ScanReturn ==
  /\ scan.stage = "fetch"
  /\ scan.idx > NumMods
  /\ scan' = IdleScan
  /\ UNCHANGED <<cacheVars, dbState, now, mods>>

\* offline variant: the minimal mod created from the local folder
NewLocalMod(id, lastModified) ==
  [id |-> id, title |-> LocalTitle, description |-> LocalDescription,
   originalTitle |-> NoText, originalDescription |-> NoText,
   translatedTitle |-> NoText, translatedDescription |-> NoText,
   timeUpdated |-> lastModified, lastTranslated |-> NoTime,
   language |-> "zh", engineOutput |-> FALSE]

\* offline variant, one id: getMod, or create the mod and save it
OfflineFetch(folderExists, lastModified) ==
  /\ scan.variant = "offline"
  /\ scan.stage = "fetch"
  /\ scan.idx \in ModIds
  /\ IF ~DbUsable THEN
       scan' = Thrown(scan) /\ UNCHANGED mods
     ELSE IF GetMod(scan.idx) = <<>> THEN
       IF ~folderExists THEN
         scan' = Skipped(scan) /\ UNCHANGED mods
       ELSE
         /\ mods' = SaveMod(NewLocalMod(scan.idx, lastModified))
         /\ scan' = [scan EXCEPT !.stage = "translate", !.previous = <<>>,
                                 !.cur = <<NewLocalMod(scan.idx, lastModified)>>,
                                 !.marked = FALSE, !.invoked = FALSE]
     ELSE
       /\ scan' = [scan EXCEPT !.stage = "translate", !.cur = GetMod(scan.idx),
                               !.previous = GetMod(scan.idx),
                               !.marked = FALSE, !.invoked = FALSE]
       /\ UNCHANGED mods
  /\ UNCHANGED <<cacheVars, dbState, now>>

\* offline variant, same id: shouldTranslateMod, translateMod, synced.push
\* (marked: translateMod was called; invoked: translateModContent was)
OfflineTranslate(failure) ==
  /\ scan.variant = "offline"
  /\ scan.stage = "translate"
  /\ LET mod == scan.cur[1] IN
     IF mod.language = "en" THEN
       scan' = Synced(scan) /\ UNCHANGED mods
     ELSE IF ~DbUsable THEN
       scan' = Thrown(scan) /\ UNCHANGED mods
     ELSE IF ShouldTranslateMod(mod, GetMod(mod.id)) THEN
       IF TranslationStillValid(mod, FALSE) THEN
         /\ scan' = [Synced(scan) EXCEPT !.marked = TRUE]
         /\ UNCHANGED mods
       ELSE
         /\ mods' = SaveMod(TranslateModOffline(mod, failure, failure))
         /\ scan' = [Synced(scan) EXCEPT !.marked = TRUE, !.invoked = TRUE]
     ELSE
       scan' = Synced(scan) /\ UNCHANGED mods
  /\ UNCHANGED <<cacheVars, dbState, now>>

\* a comparison of the titles only
TitleChanged(stored, title, description) ==
  /\ stored # <<>>
  /\ stored[1].originalTitle # title
\* Steam variant: contentChanged = mod && (originals !== Steam values)
ContentChanged(stored, title, description) ==
  /\ stored # <<>>
  /\ \/ stored[1].originalTitle # title
     \/ stored[1].originalDescription # description

\* steamMod.description || 'No description available'
OrDefault(description) ==
  IF description = NoText THEN NoDescription ELSE description

\* an updatedMod that never carries the stored translation over
UpdatedModForgets(id, stored, title, description, timeUpdated) ==
  [id |-> id, title |-> title, description |-> OrDefault(description),
   originalTitle |-> title, originalDescription |-> OrDefault(description),
   translatedTitle |-> NoText, translatedDescription |-> NoText,
   timeUpdated |-> timeUpdated, lastTranslated |-> NoTime,
   language |-> IF HasChinese(title) \/ HasChinese(description)
                  THEN "zh" ELSE "en",
   engineOutput |-> FALSE]
\* Steam variant: updatedMod
UpdatedMod(id, stored, title, description, timeUpdated) ==
  LET keep == stored # <<>> /\ ~ContentChanged(stored, title, description) IN
  [id |-> id, title |-> title, description |-> OrDefault(description),
   originalTitle |-> title, originalDescription |-> OrDefault(description),
   translatedTitle |-> IF keep THEN stored[1].translatedTitle ELSE NoText,
   translatedDescription |->
     IF keep THEN stored[1].translatedDescription ELSE NoText,
   timeUpdated |-> timeUpdated,
   lastTranslated |-> IF keep THEN stored[1].lastTranslated ELSE NoTime,
   language |-> IF HasChinese(title) \/ HasChinese(description)
                  THEN "zh" ELSE "en",
   engineOutput |-> IF keep THEN stored[1].engineOutput ELSE FALSE]

\* what the scan finds for an id: Steam details and the local folder
Findings == {"found", "noSteamDetails", "noFolder"}

\* Steam variant, one id: getMod, compare with the Steam details, saveMod
SteamFetch(finding, title, description, timeUpdated) ==
  /\ scan.variant = "steam"
  /\ scan.stage = "fetch"
  /\ scan.idx \in ModIds
  /\ IF ~DbUsable THEN
       scan' = Thrown(scan) /\ UNCHANGED mods
     ELSE IF finding # "found" THEN
       scan' = Skipped(scan) /\ UNCHANGED mods
     ELSE
       LET stored == GetMod(scan.idx)
           updatedMod ==
             UpdatedMod(scan.idx, stored, title, description, timeUpdated)
       IN /\ mods' = SaveMod(updatedMod)
          /\ scan' = [scan EXCEPT
                        !.stage = "translate", !.cur = <<updatedMod>>,
                        !.previous = stored,
                        !.marked = FALSE, !.invoked = FALSE,
                        !.changed = ContentChanged(stored, title, description)]
  /\ UNCHANGED <<cacheVars, dbState, now>>

\* Steam variant, same id: needsTranslation, translateMod, re-fetch, push
SteamTranslate(failure) ==
  /\ scan.variant = "steam"
  /\ scan.stage = "translate"
  /\ LET mod == scan.cur[1] IN
     IF ~(HasChinese(mod.title) \/ HasChinese(mod.description)) THEN
       scan' = Synced(scan) /\ UNCHANGED mods
     ELSE IF ~NeedsTranslation(mod, scan.changed) THEN
       scan' = Synced(scan) /\ UNCHANGED mods
     ELSE IF TranslationStillValid(mod, FALSE) THEN
       /\ scan' = [(IF DbUsable THEN Synced(scan) ELSE Thrown(scan))
                     EXCEPT !.marked = TRUE]
       /\ UNCHANGED mods
     ELSE IF DbUsable THEN
       /\ mods' = SaveMod(TranslateModSteam(mod, failure, failure))
       /\ scan' = [Synced(scan) EXCEPT !.marked = TRUE, !.invoked = TRUE]
     ELSE
       \* saveMod rejects inside translateMod's try; the re-fetch throws
       /\ scan' = [Thrown(scan) EXCEPT !.marked = TRUE, !.invoked = TRUE]
       /\ UNCHANGED mods
  /\ UNCHANGED <<cacheVars, dbState, now>>

\* refreshModTranslations, one mod: translateMod(mod, true)
RefreshModTranslations(id, variant, failure) ==
  /\ scan.stage = "idle"
  /\ DbUsable
  /\ GetMod(id) # <<>>
  /\ GetMod(id)[1].language # "en"
  /\ mods' = SaveMod(IF variant = "steam"
                       THEN TranslateModSteam(GetMod(id)[1], failure, failure)
                       ELSE TranslateModOffline(GetMod(id)[1], failure, failure))
  /\ UNCHANGED <<cacheVars, dbState, now, scan>>

\* a day passes
NextDay ==
  /\ \E day \in Days :
       /\ now.day < day
       /\ \A d \in Days : now.day < d => day <= d
       /\ now' = [day |-> day, tod |-> 0]
  /\ UNCHANGED <<cacheVars, dbState, mods, scan>>

Variants == {"offline", "steam"}

NextScan ==
  \/ \E variant \in Variants : StartScan(variant)
  \/ \E folderExists \in BOOLEAN : OfflineFetch(folderExists, now)
  \/ \E failure \in ScanFailures : OfflineTranslate(failure)
  \/ \E finding \in Findings, steamMod \in SteamContents :
       \E timeUpdated \in PastTimes :
         SteamFetch(finding, steamMod.title, steamMod.description, timeUpdated)
  \/ \E failure \in ScanFailures : SteamTranslate(failure)
  \/ ScanReturn
  \/ \E id \in ModIds, variant \in Variants, failure \in ScanFailures :
       RefreshModTranslations(id, variant, failure)
  \/ DbInitialize
  \/ DbClose
  \/ NextDay

SpecScan == Init /\ [][NextScan]_vars

\* ------------------------------------------- translateMod called directly
\* the translateModContent call made by translateMod (Steam variant), as the
\* translation service sees it: its arguments, what each translate call met
\* and what it returned; NoContent when translateMod made no such call
EngineCallSteam(mod, failure) ==
  IF ~CallsEngineSteam(mod) THEN NoContent
  ELSE LET in == EngineInputSteam(mod)
           t == TranslateModContent(in.title, in.description, failure, failure)
       IN [title |-> in.title, description |-> in.description,
           titleFailure |-> Met(in.title, failure),
           descriptionFailure |-> Met(in.description, failure),
           translatedTitle |-> t.translatedTitle,
           translatedDescription |-> t.translatedDescription]

\* the scan's saveMod(updatedMod) for one id
SaveUpdatedMod(id, title, description, timeUpdated) ==
  /\ DbUsable
  /\ mods' = SaveMod(UpdatedMod(id, GetMod(id), title, description, timeUpdated))
  /\ content' = NoContent
  /\ UNCHANGED <<engineVars, stats, inferCalls, dbQueries, dbState, rows, now,
                 calls, scan, exportCall, batch>>

\* the mod handed to translateMod: the row as the scan has just saved it, or
\* the mod as getMod / getAllMods return it
ModArgument(id, fromStore) ==
  IF fromStore THEN GetMod(id)[1] ELSE mods[id][1]

\* translateMod(mod, forceRetranslate) of the Steam variant
TranslateModCall(id, fromStore, forceRetranslate, failure) ==
  /\ DbUsable
  /\ mods[id] # <<>>
  /\ LET mod == ModArgument(id, fromStore) IN
     IF TranslationStillValid(mod, forceRetranslate) THEN
       /\ content' = NoContent
       /\ UNCHANGED mods
     ELSE
       /\ content' = EngineCallSteam(mod, failure)
       /\ mods' = SaveMod(TranslateModSteam(mod, failure, failure))
  /\ UNCHANGED <<engineVars, stats, inferCalls, dbQueries, dbState, rows, now,
                 calls, scan, exportCall, batch>>

NextTranslateMod ==
  \/ \E id \in ModIds, steamMod \in SteamContents, timeUpdated \in PastTimes :
       SaveUpdatedMod(id, steamMod.title, steamMod.description, timeUpdated)
  \/ \E id \in ModIds, fromStore \in BOOLEAN, forceRetranslate \in BOOLEAN :
       \E failure \in ScanFailures :
         TranslateModCall(id, fromStore, forceRetranslate, failure)
  \/ DbInitialize
  \/ NextDay

SpecTranslateMod == Init /\ [][NextTranslateMod]_vars

\* ------------------------------------------------- cache statistics
MaxStatsQueries == 5

\* Math.round((hits / total) * 100) on non-negative counters, total > 0
RoundedPercentage(hits, total) == (200 * hits + total) \div (2 * total)

\* hitRate as getCacheStats computes it from the counters
HitRate ==
  IF stats.totalTranslations > 0
    THEN RoundedPercentage(stats.cacheHits, stats.totalTranslations)
    ELSE 0

\* getCacheStats() up to the await of database.getTranslationCount; the
\* result is <<cached, total, hitRate>>
StartGetCacheStats(c) ==
  /\ CanStart(c)
  /\ dbQueries' = dbQueries + 1
  /\ LET call == [IdleCall EXCEPT !.op = "getCacheStats"] IN
     calls' = [calls EXCEPT ![c] =
                 IF dbState = "null"
                   THEN [Returned(call, <<0, stats.totalTranslations, 0>>,
                                  "fallback") EXCEPT !.err = "store"]
                   ELSE [call EXCEPT !.pc = "counting"]]
  /\ UNCHANGED <<engineVars, stats, inferCalls, dbState, rows, now>>
  /\ UNCHANGED modVars

\* getCacheStats(): the count arrives; the counters are read and returned
GetCacheStats(c) ==
  /\ calls[c].pc = "counting"
  /\ calls' = [calls EXCEPT ![c] =
       IF ~DbUsable
         THEN [Returned(calls[c], <<0, stats.totalTranslations, 0>>,
                        "fallback") EXCEPT !.err = "store"]
         ELSE Returned(calls[c],
                       <<GetTranslationCount, stats.totalTranslations, HitRate>>,
                       "stats")]
  /\ UNCHANGED <<engineVars, stats, inferCalls, dbQueries, dbState, rows, now>>
  /\ UNCHANGED modVars

\* the caller drops the result of a settled call and is free to call again
Forget(c) ==
  /\ calls[c].pc = "done"
  /\ calls' = [calls EXCEPT ![c] = IdleCall]
  /\ UNCHANGED <<engineVars, stats, inferCalls, dbQueries, dbState, rows, now>>
  /\ UNCHANGED modVars

StatsText == <<"a">>

NextStats ==
  \/ /\ dbQueries < MaxStatsQueries
     /\ DbSaveTranslation(StatsText, Translation(StatsText), "zh", "en")
  \/ \E c \in Callers :
       dbQueries < MaxStatsQueries /\ StartTranslate(c, StatsText)
  \/ \E c \in Callers : Lookup(c)
  \/ LoadSucceed
  \/ \E c \in Callers : InitOwnerResume(c)
  \/ \E c \in Callers : InitWaiterResume(c)
  \/ \E c \in Callers : Infer(c)
  \/ \E c \in Callers : Save(c)
  \/ \E c \in Callers : dbQueries < MaxStatsQueries /\ StartClearCache(c)
  \/ \E c \in Callers : ClearCache(c)
  \/ \E c \in Callers : dbQueries < MaxStatsQueries /\ StartGetCacheStats(c)
  \/ \E c \in Callers : GetCacheStats(c)
  \/ \E c \in Callers : Forget(c)
  \/ DbInitialize

SpecStats == Init /\ [][NextStats]_vars

\* ------------------------------------- the store, every kind of operation
\* a store operation that resolves although the store cannot be used
ResolvesSilently(call) == Returned(call, <<>>, "store")
\* runQuery / getQuery / getAllQuery reject: 'Database not initialized'
\* while this.db is unset, the error of the closed handle after close()
StoreFailure(call) ==
  Threw(call, IF dbState = "null" THEN "not initialized" ELSE "closed")

\* one Database method called directly: it rejects, or it returns value and
\* leaves the tables as newRows and newMods (at most MaxStoreCalls calls)
StoreCall(op, value, newRows, newMods) ==
  /\ dbQueries < MaxStoreCalls
  /\ dbQueries' = dbQueries + 1
  /\ IF DbUsable THEN
       /\ calls' = [calls EXCEPT ![1] =
                      Returned([IdleCall EXCEPT !.op = op], value, "store")]
       /\ rows' = newRows
       /\ mods' = newMods
     ELSE
       /\ calls' = [calls EXCEPT ![1] =
                      StoreFailure([IdleCall EXCEPT !.op = op])]
       /\ UNCHANGED <<rows, mods>>
  /\ UNCHANGED <<engineVars, stats, inferCalls, dbState, now, scan, content,
                 exportCall, batch>>

\* the ids of the stored mods in an order that ORDER BY time_updated DESC
\* allows
AllModsOrders ==
  LET stored == { id \in ModIds : mods[id] # <<>> } IN
  { s \in [1..Cardinality(stored) -> stored] :
      /\ \A i, j \in DOMAIN s : i # j => s[i] # s[j]
      /\ \A i, j \in DOMAIN s :
           i < j => ~TimeLess(mods[s[i]][1].timeUpdated,
                              mods[s[j]][1].timeUpdated) }

CallSaveMod(id, title, description) ==
  StoreCall("saveMod", <<>>, rows,
            SaveMod(UpdatedMod(id, <<>>, title, description, now)))
CallGetMod(id) == StoreCall("getMod", GetMod(id), rows, mods)
CallGetAllMods ==
  \E order \in AllModsOrders :
    StoreCall("getAllMods",
              [i \in DOMAIN order |-> MapRowToMod(mods[order[i]][1])],
              rows, mods)
CallSaveTranslation(text, translation, src, tgt) ==
  StoreCall("saveTranslation", <<>>,
            SaveTranslation(text, translation, src, tgt), mods)
CallGetTranslation(text, src, tgt) ==
  StoreCall("getTranslation", GetTranslation(text, src, tgt), rows, mods)
CallGetTranslationCount ==
  StoreCall("getTranslationCount", <<GetTranslationCount>>, rows, mods)
CallClearExpiredTranslations ==
  StoreCall("clearExpiredTranslations", <<Cardinality(ClearExpiredRows)>>,
            ClearExpiredTranslations, mods)
CallClearAllTranslations ==
  StoreCall("clearAllTranslations", <<Cardinality(rows)>>, {}, mods)

NextDb ==
  \/ \E id \in ModIds, steamMod \in SteamContents :
       CallSaveMod(id, steamMod.title, steamMod.description)
  \/ \E id \in ModIds : CallGetMod(id)
  \/ CallGetAllMods
  \/ \E k \in StoreKeys :
       CallSaveTranslation(k[1], Translation(k[1]), k[2], k[3])
  \/ \E k \in StoreKeys : CallGetTranslation(k[1], k[2], k[3])
  \/ CallGetTranslationCount
  \/ CallClearExpiredTranslations
  \/ CallClearAllTranslations
  \/ DbInitialize
  \/ DbClose

SpecDb == Init /\ [][NextDb]_vars

\* ------------------------------------------------------------ exportMods
MaxExportIds == 3

\* the requested id lists: up to MaxExportIds ids, repetitions allowed
ExportRequests ==
  UNION { [1..n -> ModIds] : n \in 0..MaxExportIds }

\* a missingMods list that is never filled
NoMissingMods(modIds, existing) == <<>>
\* for (const modId of modIds): modExists(modId) ? modPaths.push : missingMods.push
MissingMods(modIds, existing) ==
  SelectSeq(modIds, LAMBDA id : id \notin existing)
ModPaths(modIds, existing) ==
  SelectSeq(modIds, LAMBDA id : id \in existing)

\* exportMods(modIds, outputPath) up to the archive: the folders are looked
\* up; no folder at all throws, otherwise the archive is started
ExportMods(modIds, existing) ==
  /\ exportCall.stage \in {"idle", "done"}
  /\ exportCall' =
       IF Len(ModPaths(modIds, existing)) = 0 THEN
         [IdleExport EXCEPT
            !.stage = "done", !.modIds = modIds, !.existing = existing,
            !.missingMods = MissingMods(modIds, existing),
            !.outcome = "threw", !.err = "No local mod folders found"]
       ELSE
         [IdleExport EXCEPT
            !.stage = "archiving", !.modIds = modIds, !.existing = existing,
            !.modPaths = ModPaths(modIds, existing),
            !.missingMods = MissingMods(modIds, existing)]
  /\ UNCHANGED <<engineVars, stats, inferCalls, dbQueries, dbState, rows, now,
                 calls, mods, scan, content, batch>>

\* output.on('close'): every folder of modPaths was added, the call resolves
ArchiveClose ==
  /\ exportCall.stage = "archiving"
  /\ exportCall' = [exportCall EXCEPT
                      !.stage = "done", !.outcome = "returned",
                      !.archived = exportCall.modPaths,
                      !.exportedCount = Len(exportCall.modPaths)]
  /\ UNCHANGED <<engineVars, stats, inferCalls, dbQueries, dbState, rows, now,
                 calls, mods, scan, content, batch>>

\* archive.on('error') or output.on('error'): the call rejects
ExportErrors == {"archive", "output"}
ArchiveError(err) ==
  /\ exportCall.stage = "archiving"
  /\ exportCall' = [exportCall EXCEPT
                      !.stage = "done", !.outcome = "threw", !.err = err]
  /\ UNCHANGED <<engineVars, stats, inferCalls, dbQueries, dbState, rows, now,
                 calls, mods, scan, content, batch>>

NextExport ==
  \/ \E modIds \in ExportRequests, existing \in SUBSET ModIds :
       ExportMods(modIds, existing)
  \/ ArchiveClose
  \/ \E err \in ExportErrors : ArchiveError(err)

SpecExport == Init /\ [][NextExport]_vars

\* -------------------------------------------------------- translateBatch
BatchSize == 5         \* const batchSize = 5
MaxBatchLen == 6

\* the texts handed to translateBatch: n texts, two of them in turn
BatchRequest(n) ==
  [i \in 1..n |-> IF i % 2 = 1 THEN <<"a">> ELSE <<" ", "b">>]
BatchRequests == { BatchRequest(n) : n \in 0..MaxBatchLen }

\* a slice that takes the rest of the texts
WholeRest(texts, first) == Len(texts)
\* texts.slice(i, i + batchSize): the index of its last text
LastOfGroup(texts, first) ==
  IF first + BatchSize - 1 < Len(texts) THEN first + BatchSize - 1
  ELSE Len(texts)

\* batch.map(text => this.translate(text)): every translate call of the
\* group runs to its first await; a blank text has returned by then
StartGroup(b, first) ==
  LET last == LastOfGroup(b.texts, first) IN
  [b EXCEPT
     !.first = first,
     !.pcs = [i \in 1..Len(b.texts) |->
                IF i \in first..last
                  THEN IF IsBlank(b.texts[i]) THEN "done" ELSE "lookup"
                  ELSE b.pcs[i]],
     !.returned = [i \in 1..Len(b.texts) |->
                     IF i \in first..last /\ IsBlank(b.texts[i])
                       THEN b.texts[i] ELSE b.returned[i]]]
\* the translate calls of the group that got past the blank check
Started(b, first) ==
  Cardinality({ i \in first..LastOfGroup(b.texts, first) :
                  ~IsBlank(b.texts[i]) })

\* translateBatch(texts): [] for no texts, else the first group starts
StartBatch(texts) ==
  /\ batch.stage = "idle"
  /\ IF Len(texts) = 0 THEN
       /\ batch' = [IdleBatch EXCEPT !.stage = "done"]
       /\ UNCHANGED <<stats, dbQueries>>
     ELSE
       LET b == [IdleBatch EXCEPT
                   !.stage = "running", !.texts = texts,
                   !.pcs = [i \in 1..Len(texts) |-> "waiting"],
                   !.returned = [i \in 1..Len(texts) |-> <<>>]]
       IN /\ batch' = StartGroup(b, 1)
          /\ stats' = [stats EXCEPT !.totalTranslations = @ + Started(b, 1)]
          /\ dbQueries' = dbQueries + Started(b, 1)
  /\ UNCHANGED <<engineVars, inferCalls, dbState, rows, now, calls, mods,
                 scan, content, exportCall>>

\* one translate call of the batch returns value
BatchReturn(i, value) ==
  [batch EXCEPT !.pcs[i] = "done", !.returned[i] = value]

\* translate() of text i: the cache lookup completes
BatchLookup(i) ==
  /\ batch.stage = "running"
  /\ i \in DOMAIN batch.pcs
  /\ batch.pcs[i] = "lookup"
  /\ LET cached == GetTranslation(batch.texts[i], "zh", "en") IN
     IF ~DbUsable THEN
       /\ batch' = BatchReturn(i, batch.texts[i])
       /\ UNCHANGED stats
     ELSE IF cached # <<>> /\ cached[1].translated_text # <<>> THEN
       /\ stats' = [stats EXCEPT !.cacheHits = @ + 1]
       /\ batch' = BatchReturn(i, cached[1].translated_text)
     ELSE
       /\ stats' = [stats EXCEPT !.cacheMisses = @ + 1]
       /\ batch' = [batch EXCEPT !.pcs[i] = "model"]
  /\ UNCHANGED <<engineVars, inferCalls, dbQueries, dbState, rows, now, calls,
                 mods, scan, content, exportCall>>

\* translate() of text i after a miss: initialize(), the model and
\* saveTranslation, taken together; any failure returns the text
BatchModel(i, failure, shape) ==
  /\ batch.stage = "running"
  /\ i \in DOMAIN batch.pcs
  /\ batch.pcs[i] = "model"
  /\ IF failure = "none" /\ DbUsable THEN
       /\ inferCalls' = inferCalls + 1
       /\ dbQueries' = dbQueries + 1
       /\ rows' = SaveTranslation(batch.texts[i],
                                  ExtractTranslation(shape, batch.texts[i]),
                                  "zh", "en")
       /\ batch' = BatchReturn(i, ExtractTranslation(shape, batch.texts[i]))
     ELSE
       /\ batch' = BatchReturn(i, batch.texts[i])
       /\ UNCHANGED <<inferCalls, dbQueries, rows>>
  /\ UNCHANGED <<engineVars, stats, dbState, now, calls, mods, scan, content,
                 exportCall>>

\* the results of a group in the order in which its calls were made last
GroupResultsReversed(b) ==
  [k \in 1..(LastOfGroup(b.texts, b.first) - b.first + 1) |->
     b.returned[LastOfGroup(b.texts, b.first) - k + 1]]
\* await Promise.all(...): the values in the order of the calls
GroupResults(b) ==
  SubSeq(b.returned, b.first, LastOfGroup(b.texts, b.first))

\* Promise.all of the group resolves: results.push(...batchResults), then
\* the next group starts, or results is returned
FinishGroup ==
  /\ batch.stage = "running"
  /\ \A i \in batch.first..LastOfGroup(batch.texts, batch.first) :
       batch.pcs[i] = "done"
  /\ LET pushed == [batch EXCEPT !.results = @ \o GroupResults(batch)]
         next == batch.first + BatchSize
     IN IF next > Len(batch.texts) THEN
          /\ batch' = [pushed EXCEPT !.stage = "done"]
          /\ UNCHANGED <<stats, dbQueries>>
        ELSE
          /\ batch' = StartGroup(pushed, next)
          /\ stats' = [stats EXCEPT
                         !.totalTranslations = @ + Started(pushed, next)]
          /\ dbQueries' = dbQueries + Started(pushed, next)
  /\ UNCHANGED <<engineVars, inferCalls, dbState, rows, now, calls, mods,
                 scan, content, exportCall>>

NextBatch ==
  \/ \E texts \in BatchRequests : StartBatch(texts)
  \/ \E i \in 1..MaxBatchLen : BatchLookup(i)
  \/ \E i \in 1..MaxBatchLen, failure \in ScanFailures, shape \in ModelShapes :
       BatchModel(i, failure, shape)
  \/ FinishGroup
  \/ DbInitialize

SpecBatch == Init /\ [][NextBatch]_vars

\* ============================================================ properties
PendingLoads == { p \in 1..Len(loads) : loads[p] = "pending" }
FailedLoads == { p \in 1..Len(loads) : loads[p] = "rejected" }
AwaitingLoad(c) == calls[c].pc \in {"initOwner", "initWait"}
MissedCache(c) ==
  /\ calls[c].op = "translate"
  /\ \/ calls[c].pc \in {"initOwner", "initWait", "afterInit", "save"}
     \/ calls[c].via = "model"
     \/ calls[c].err \in {"init", "infer", "save", "nomodel"}
OnlyWhitespace(text) == \A i \in 1..Len(text) : text[i] = " "
RowsFor(text) == { r \in rows : KeyOf(r) = Key(text, "zh", "en") }

\* C1: concurrent translate calls that miss the cache on a cold engine share
\* one model load: never two loads in flight, every call waiting for a load
\* in progress waits for that one load, the loader has been invoked once
\* some call needs the model, and it is invoked again only after a load
\* failed (so exactly once when no load fails).
C1_SingleModelLoad ==
  /\ Cardinality(PendingLoads) <= 1
  /\ Len(loads) <= Cardinality(FailedLoads) + 1
  /\ (\E c \in Callers : MissedCache(c)) => Len(loads) >= 1
  /\ \A c \in Callers :
       AwaitingLoad(c) /\ loads[calls[c].awaiting] = "pending"
         => calls[c].awaiting = initializationPromise /\ isInitializing

C1_Witness ==
  \E c \in Callers, d \in Callers :
    /\ calls[c].op = "translate" /\ calls[c].pc = "initOwner"
    /\ calls[d].op = "translate" /\ calls[d].pc = "initWait"
    /\ calls[d].awaiting = calls[c].awaiting
    /\ loads = <<"pending">>

\* C2: a translate call whose lookup finds an unexpired cache entry returns
\* exactly the cached text, counts one hit and no miss, invokes neither the
\* model loader nor the model, and leaves the initialization state as it was.
C2_CacheHitPurity ==
  [][\A c \in Callers :
       ( /\ calls[c].pc = "lookup" /\ calls'[c].pc # "lookup"
         /\ DbUsable
         /\ \E r \in RowsFor(calls[c].text) : StillValid(r) )
       => /\ calls'[c].pc = "done" /\ calls'[c].outcome = "returned"
          /\ \E r \in RowsFor(calls[c].text) : calls'[c].result = r.translated_text
          /\ stats'.cacheHits = stats.cacheHits + 1
          /\ stats'.cacheMisses = stats.cacheMisses
          /\ UNCHANGED <<engineVars, inferCalls, rows>>]_vars

C2_Witness ==
  \E c \in Callers :
    /\ calls[c].via = "hit" /\ calls[c].result = Translation(calls[c].text)
    /\ stats.cacheHits = 1 /\ inferCalls = 1 /\ Len(loads) = 1

\* C3: a failed model load is not remembered: every call awaiting it gets
\* the failure; once the starter's initialize has returned the engine is not
\* ready and records no load in progress; the next call that needs the
\* model starts a new load.
C3_FailedLoadNotRemembered ==
  [][/\ \A c \in Callers :
          ( /\ AwaitingLoad(c) /\ loads[calls[c].awaiting] = "rejected"
            /\ calls'[c].pc # calls[c].pc )
          => calls'[c].pc = "done" /\ calls'[c].err = "init"
     /\ ( /\ Len(loads') >= 1
          /\ \A p \in 1..Len(loads') : loads'[p] = "rejected"
          /\ ~ \E o \in Callers : calls'[o].pc = "initOwner" )
        => translator' = NULL /\ ~isInitializing' /\ initializationPromise' = NULL
     /\ \A c \in Callers :
          ( /\ Len(loads) >= 1
            /\ \A p \in 1..Len(loads) : loads[p] = "rejected"
            /\ ~ \E o \in Callers : calls[o].pc = "initOwner"
            /\ calls[c].pc \in {"idle", "lookup"}
            /\ calls'[c].pc \in {"initOwner", "initWait", "afterInit"}
                 \/ calls'[c].via = "init" )
          => /\ calls'[c].pc = "initOwner"
             /\ loads' = Append(loads, "pending")]_vars

C3_Witness ==
  /\ loads = <<"rejected", "resolved">>
  /\ translator = 2
  /\ \E c \in Callers : calls[c].err = "init"

\* C4: a translate call whose model invocation throws, on a loaded model,
\* returns its input text and does not throw.
C4_InferenceErrorFallsBack ==
  \A c \in Callers :
    calls[c].op = "translate" /\ calls[c].pc = "done" /\ calls[c].err = "infer"
      => calls[c].outcome = "returned" /\ calls[c].result = calls[c].text

C4_Witness ==
  \E c \in Callers :
    /\ calls[c].op = "translate" /\ calls[c].err = "infer"
    /\ translator # NULL /\ calls[c].result = calls[c].text

\* C5: a translate call whose model initialization fails ends by throwing
\* the initialization error to its caller.
C5_InitFailureThrown ==
  \A c \in Callers :
    calls[c].op = "translate" /\ calls[c].pc = "done" /\ calls[c].err = "init"
      => calls[c].outcome = "threw"

\* C6: a translate call whose cache lookup fails with a store error ends by
\* throwing that error to its caller, not by returning a fallback.
C6_StoreErrorPropagates ==
  \A c \in Callers :
    calls[c].op = "translate" /\ calls[c].pc = "done" /\ calls[c].err = "store"
      => calls[c].outcome = "threw"

\* C7: once a model is loaded no step clears or replaces the handle, and
\* the loader is not invoked again.
C7_ReadyIsTerminal ==
  [][translator # NULL => translator' = translator /\ loads' = loads]_vars

C7_Witness ==
  /\ translator # NULL
  /\ \A c \in Callers : calls[c].pc = "done"
  /\ \E c \in Callers : calls[c].err = "infer"

\* C8: translate of an empty or whitespace-only text returns the text and
\* changes nothing: no store call, no cache row, no counter, no model load.
C8_BlankTextNoOp ==
  [][\A c \in Callers :
       ( /\ calls[c].pc = "idle" /\ calls'[c].op = "translate"
         /\ OnlyWhitespace(calls'[c].text) )
       => /\ calls'[c].pc = "done" /\ calls'[c].outcome = "returned"
          /\ calls'[c].result = calls'[c].text
          /\ UNCHANGED <<engineVars, stats, inferCalls, dbQueries, rows>>]_vars

C8_Witness ==
  \E c \in Callers :
    /\ calls[c].op = "translate" /\ calls[c].text = <<" ">>
    /\ calls[c].pc = "done" /\ calls[c].result = <<" ">>
    /\ dbQueries = 0

\* C9: when translate returns a text obtained from the model, the cache
\* holds exactly one row for (text, zh, en), carrying that text and not yet
\* expired; a later lookup of the text, made while a row for it is
\* unexpired, returns the row's text without invoking the model.
C9_ModelResultCached ==
  [][\A c \in Callers :
       /\ ( /\ calls[c].pc = "save" /\ calls'[c].pc = "done"
            /\ calls'[c].via = "model" )
          => /\ Cardinality({ r \in rows' : KeyOf(r) = Key(calls[c].text, "zh", "en") }) = 1
             /\ \E r \in rows' :
                  /\ KeyOf(r) = Key(calls[c].text, "zh", "en")
                  /\ r.translated_text = calls'[c].result
                  /\ TimeLess(now', ParseISO(r.expires_at))
       /\ ( /\ calls[c].pc = "lookup" /\ calls'[c].pc # "lookup" /\ DbUsable
            /\ \E r \in RowsFor(calls[c].text) : StillValid(r) )
          => /\ \E r \in RowsFor(calls[c].text) : calls'[c].result = r.translated_text
             /\ inferCalls' = inferCalls]_vars

C9_Witness ==
  \E c \in Callers, d \in Callers :
    /\ calls[c].via = "model" /\ calls[d].via = "hit"
    /\ calls[c].text = calls[d].text
    /\ calls[c].result = calls[d].result
    /\ inferCalls = 1

\* C10: a row whose expiry instant has passed is not returned by
\* getTranslation, is not counted by getTranslationCount, and is among the
\* rows clearExpiredTranslations deletes, which are exactly the rows past
\* their expiry.
C10_ExpiredRowsAbsent ==
  /\ \A r \in rows :
       HasExpired(r) =>
         /\ GetTranslation(r.original_text, r.source_lang, r.target_lang) = <<>>
         /\ r \in ClearExpiredRows
  /\ GetTranslationCount = Cardinality({ r \in rows : ~HasExpired(r) })
  /\ ClearExpiredRows = { r \in rows : HasExpired(r) }

\* ---------------------------------------------------------------- C11
\* C11: the cache holds at most one row per (original text, source
\* language, target language); saving a translation for a triple leaves
\* exactly one row of it, holding the saved text and a fresh expiry, and
\* leaves the rows of every other triple as they were.
RowOf(k) == { r \in rows : KeyOf(r) = k }
OtherRows(k) == { r \in rows : KeyOf(r) # k }

C11_OneRowPerKey ==
  [][ /\ \A k \in StoreKeys : Cardinality(RowOf(k)') <= 1
      /\ \A k \in StoreKeys : \A translation \in StoreTranslations(k[1]) :
           DbSaveTranslation(k[1], translation, k[2], k[3]) =>
             /\ \E r \in rows' :
                  /\ RowOf(k)' = {r}
                  /\ r.translated_text = translation
                  /\ r.expires_at = ToISOString(ExpiresAt)
             /\ OtherRows(k)' = OtherRows(k) ]_vars

\* three direct saves left two rows, so one of them replaced a row; the two
\* rows hold the same text for two target languages and expire on
\* different days
C11_Witness ==
  /\ dbQueries = 3
  /\ \A c \in Callers : calls[c].pc = "idle"
  /\ Cardinality(rows) = 2
  /\ \E r1, r2 \in rows :
       /\ r1.original_text = r2.original_text
       /\ r1.target_lang # r2.target_lang
       /\ r1.expires_at[1] # r2.expires_at[1]

ItemDone == scan.stage = "translate" /\ scan'.stage = "fetch"
\* ... and pushed it to synced
ItemSynced == ItemDone /\ Len(scan'.synced) = Len(scan.synced) + 1

\* the retranslation conditions as stated: no stored record, never
\* translated, updated after the last translation, or translation older
\* than the TTL window
RetranslationDue ==
  \/ scan.previous = <<>>
  \/ scan.previous[1].lastTranslated = NoTime
  \/ TimeLess(scan.previous[1].lastTranslated, scan.cur[1].timeUpdated)
  \/ TimeLess(scan.previous[1].lastTranslated,
              [day |-> now.day - ModTtlDays, tod |-> now.tod])

\* the translation part of a stored row
TranslationOf(row) ==
  <<row.translatedTitle, row.translatedDescription, row.lastTranslated>>
NoTranslation == <<NoText, NoText, NoTime>>

\* ---------------------------------------------------------------- C13
\* C13: when a scan saves an item whose freshly fetched title or
\* description differs from the stored original title or original
\* description, the stored translated title, translated description and
\* translation timestamp are cleared, however recent the timestamp is.
C13_ChangedContentClearsTranslation ==
  [][ \A steamMod \in SteamContents, timeUpdated \in PastTimes :
        ( /\ SteamFetch("found", steamMod.title, steamMod.description,
                        timeUpdated)
          /\ scan'.stage = "translate"
          /\ mods[scan.idx] # <<>>
          /\ \/ mods[scan.idx][1].originalTitle # steamMod.title
             \/ mods[scan.idx][1].originalDescription # steamMod.description )
        => TranslationOf(mods'[scan.idx][1]) = NoTranslation ]_vars

\* a row translated today by the engine has just been cleared by the scan
C13_Witness ==
  /\ scan.variant = "steam"
  /\ scan.stage = "translate"
  /\ scan.previous # <<>>
  /\ scan.previous[1].translatedTitle = <<"E1">>
  /\ scan.previous[1].lastTranslated = now
  /\ scan.cur[1].title = <<"zh2">>
  /\ TranslationOf(mods[scan.idx][1]) = NoTranslation

\* ---------------------------------------------------------------- C14
\* C14: an item that needs translation is marked for retranslation
\* exactly when a retranslation condition holds (no stored record, never
\* translated, updated after the last translation, translation older than
\* the TTL window); a changed content aside, an item with none of them is
\* not marked.
C14_MarkedExactlyWhenDue ==
  [][ (ItemSynced /\ scan.cur[1].language # "en") =>
        /\ RetranslationDue => scan'.marked
        /\ scan'.marked => (RetranslationDue \/ scan.changed) ]_vars

\* ---------------------------------------------------------------- C15
\* C15: for every item a scan marks for retranslation, the same scan
\* invokes the translation engine, and the item stored afterwards has its
\* lastTranslated refreshed.
C15_MarkedItemsAreTranslated ==
  [][ (ItemSynced /\ scan'.marked) =>
        /\ scan'.invoked
        /\ mods'[scan.idx][1].lastTranslated = now ]_vars

\* ---------------------------------------------------------------- C16
\* C16 as stated: when no retranslation condition holds for an item, the
\* scan leaves its stored translated title, translated description and
\* lastTranslated as they were and does not call the translation engine.
C16_Original ==
  [][ (ItemDone /\ ~RetranslationDue) =>
        /\ TranslationOf(mods'[scan.idx][1]) = TranslationOf(scan.previous[1])
        /\ ~scan'.invoked ]_vars

\* C16: when no retranslation condition holds for an item and its freshly
\* fetched title and description equal the stored original title and
\* description, the scan leaves its stored translated title, translated
\* description and lastTranslated as they were and does not call the
\* translation engine.
C16_UnchangedItemsKeepTranslation ==
  [][ (ItemDone /\ ~RetranslationDue /\ ~scan.changed) =>
        /\ TranslationOf(mods'[scan.idx][1]) = TranslationOf(scan.previous[1])
        /\ ~scan'.invoked ]_vars

\* a Steam scan has saved an item translated earlier today whose content
\* and update time are unchanged: the translation is still stored
C16_Witness ==
  /\ scan.variant = "steam"
  /\ scan.stage = "fetch"
  /\ scan.idx = 2
  /\ scan.synced = <<1>>
  /\ ~scan.marked
  /\ mods[1] # <<>>
  /\ mods[1][1].translatedTitle = <<"E1">>
  /\ mods[1][1].lastTranslated = now
  /\ mods[1][1].originalTitle = <<"zh1">>

\* ---------------------------------------------------------------- C17
\* C17: in every stored item, lastTranslated is set if and only if a
\* translated field was populated by a translation call that succeeded.
C17_LastTranslatedIffTranslated ==
  \A id \in ModIds :
    mods[id] # <<>> =>
      (mods[id][1].lastTranslated # NoTime <=> mods[id][1].engineOutput)

\* ---------------------------------------------------------------- C18
\* C18 as stated: once an item's originalTitle and originalDescription are
\* stored, no later scan, translation or refresh changes their values.
StoredOriginals(id) ==
  <<mods[id][1].originalTitle, mods[id][1].originalDescription>>
HasOriginals(id) ==
  /\ mods[id] # <<>>
  /\ mods[id][1].originalTitle # NoText
  /\ mods[id][1].originalDescription # NoText

C18_Original ==
  [][ \A id \in ModIds :
        HasOriginals(id) => StoredOriginals(id)' = StoredOriginals(id) ]_vars

\* C18: once an item's originalTitle and originalDescription are stored,
\* no translation or translation refresh changes them; a scan changes them
\* only when the freshly fetched title or description differs from them,
\* and then to the freshly fetched title and description.
C18_OriginalsFollowFetchedContent ==
  [][ \A id \in ModIds :
        (HasOriginals(id) /\ StoredOriginals(id)' # StoredOriginals(id)) =>
          /\ scan.variant = "steam"
          /\ scan.stage = "fetch"
          /\ scan.idx = id
          /\ scan'.stage = "translate"
          /\ scan'.changed
          /\ StoredOriginals(id)' =
               <<scan'.cur[1].title, scan'.cur[1].description>> ]_vars

\* a scan has replaced the stored originals of a translated item by the
\* fetched content
C18_Witness ==
  /\ scan.variant = "steam"
  /\ scan.stage = "translate"
  /\ scan.changed
  /\ scan.previous # <<>>
  /\ scan.previous[1].originalTitle = <<"zh1">>
  /\ scan.previous[1].translatedTitle = <<"E1">>
  /\ mods[scan.idx][1].originalTitle = <<"zh2">>

\* ---------------------------------------------------------------- C19
\* C19: a failure while processing one id neither stops the processing of
\* the remaining ids nor fails the scan: every processed id has exactly one
\* outcome, an entry in synced or an entry in errors, so that at the end
\* scanned = |synced| + |errors|.
Outcomes(id) ==
  Cardinality({ p \in 1..Len(scan.synced) : scan.synced[p] = id })
    + Cardinality({ p \in 1..Len(scan.errors) : scan.errors[p] = id })

C19_OneOutcomePerId ==
  scan.stage # "idle" =>
    /\ scan.idx <= NumMods + 1
    /\ Len(scan.synced) + Len(scan.errors) = scan.idx - 1
    /\ \A id \in ModIds : Outcomes(id) = IF id < scan.idx THEN 1 ELSE 0

\* the first id failed while the store was not open, the second was synced
\* and the loop is over
C19_Witness ==
  /\ scan.stage = "fetch"
  /\ scan.idx = NumMods + 1
  /\ scan.errors = <<1>>
  /\ scan.synced = <<2>>
  /\ mods[1] = <<>>
  /\ mods[2] # <<>>

\* ---------------------------------------------------------------- C20
\* C20: translateModContent never returns a partial result: when the
\* translation of either field failed, it returns the original title and
\* the original description.
C20_NoPartialResult ==
  (content.titleFailure # "none" \/ content.descriptionFailure # "none") =>
    /\ content.translatedTitle = content.title
    /\ content.translatedDescription = content.description

C25_ForcedRetranslatesOriginals ==
  [][\A id \in ModIds, failure \in ScanFailures :
       TranslateModCall(id, TRUE, TRUE, failure) =>
         LET row == mods[id][1]
             saved == mods'[id][1]
         IN /\ HasChinese(row.originalTitle) =>
                 /\ content'.title = row.originalTitle
                 /\ saved.translatedTitle = content'.translatedTitle
            /\ HasChinese(row.originalDescription) =>
                 /\ content'.description = row.originalDescription
                 /\ saved.translatedDescription =
                      content'.translatedDescription]_vars

\* ------------------------------------------------------------------ C26
\* C26: every stored item that has a translatedTitle has an originalTitle.
C26_TranslatedTitleHasOriginal ==
  \A id \in ModIds :
    mods[id] # <<>> =>
      (mods[id][1].translatedTitle # NoText =>
         mods[id][1].originalTitle # NoText)

\* an item created without originals by the offline scan has been translated
\* and saved, and another one has been saved with a translation by a Steam scan
C26_Witness ==
  \E id \in ModIds, other \in ModIds :
    /\ mods[id] # <<>>
    /\ mods[id][1].translatedTitle # NoText
    /\ mods[id][1].originalTitle = LocalTitle
    /\ mods[other] # <<>>
    /\ mods[other][1].translatedTitle # NoText
    /\ HasChinese(mods[other][1].originalTitle)

\* ------------------------------------------------------------------ C29
\* C29: when a Steam scan fetches for an item the title and description
\* that the previous scan fetched and stored (an empty description
\* included), it reports no content change and saves the item with the
\* stored translatedTitle, translatedDescription and lastTranslated.
C29_SameContentNoChange ==
  [][\A steamMod \in SteamContents, timeUpdated \in PastTimes :
       (/\ SteamFetch("found", steamMod.title, steamMod.description,
                      timeUpdated)
        /\ DbUsable
        /\ mods[scan.idx] # <<>>
        /\ mods[scan.idx][1].originalTitle = steamMod.title
        /\ mods[scan.idx][1].originalDescription =
             OrDefault(steamMod.description)) =>
         /\ ~scan'.changed
         /\ TranslationOf(mods'[scan.idx][1]) =
              TranslationOf(mods[scan.idx][1])]_vars

\* ------------------------------------------------------------------ C30
\* C30: every cache row written by translate maps its text to the
\* translation the model returned for it, never to the text itself that
\* translate falls back to.
C30_RowsHoldModelTranslations ==
  \A r \in rows :
    /\ r.translated_text = Translation(r.original_text)
    /\ r.translated_text # r.original_text

\* ------------------------------------------------------------------ C24
\* C24: the hit rate that a getCacheStats call reports is a percentage
\* between 0 and 100, whatever translate and clearCache calls ran around it.
C24_HitRateIsPercentage ==
  \A c \in Callers :
    (calls[c].op = "getCacheStats" /\ calls[c].pc = "done") =>
      calls[c].result[3] \in 0..100

\* ------------------------------------------------------------------ C27
\* C27: a Database read or write of mods or translations that is invoked
\* while the store is not initialized or already closed rejects with the
\* "not initialized" or the "closed" error and leaves both tables as they
\* were.
C27_UnusableStoreRejects ==
  [][(dbQueries' # dbQueries /\ ~DbUsable) =>
       /\ calls'[1].outcome = "threw"
       /\ calls'[1].err = IF dbState = "null" THEN "not initialized"
                          ELSE "closed"
       /\ rows' = rows
       /\ mods' = mods]_vars

\* a read or write has been rejected by a closed store that holds a mod
\* and a translation
C27_Witness ==
  /\ dbState = "closed"
  /\ calls[1].outcome = "threw"
  /\ calls[1].err = "closed"
  /\ rows # {}
  /\ \E id \in ModIds : mods[id] # <<>>

\* ------------------------------------------------------------------ C28
\* the requested ids with and without a local folder, in request order
RequestedExisting ==
  SelectSeq(exportCall.modIds, LAMBDA id : id \in exportCall.existing)
RequestedMissing ==
  SelectSeq(exportCall.modIds, LAMBDA id : id \notin exportCall.existing)

\* C28 as stated: an exportMods call that resolved has archived exactly the
\* requested ids with a local folder and reports the others in missingMods,
\* with exportedCount + |missingMods| = number of requested ids; a call
\* that failed had no requested id with a local folder.
C28_Original ==
  exportCall.stage = "done" =>
    /\ exportCall.outcome = "returned" =>
         /\ exportCall.archived = RequestedExisting
         /\ exportCall.missingMods = RequestedMissing
         /\ exportCall.exportedCount + Len(exportCall.missingMods) =
              Len(exportCall.modIds)
    /\ exportCall.outcome = "threw" => Len(RequestedExisting) = 0

\* C28 (amended): an exportMods call that resolved has archived exactly the
\* requested ids with a local folder and reports the others in missingMods,
\* with exportedCount + |missingMods| = number of requested ids; a call
\* that failed either had no requested id with a local folder or was
\* rejected by an error of the archive or of the output stream.
C28_ExportReportsMissing ==
  exportCall.stage = "done" =>
    /\ exportCall.outcome = "returned" =>
         /\ exportCall.archived = RequestedExisting
         /\ exportCall.missingMods = RequestedMissing
         /\ exportCall.exportedCount + Len(exportCall.missingMods) =
              Len(exportCall.modIds)
    /\ exportCall.outcome = "threw" =>
         \/ /\ Len(RequestedExisting) = 0
            /\ exportCall.err = "No local mod folders found"
         \/ /\ Len(RequestedExisting) > 0
            /\ exportCall.err \in ExportErrors

\* an export of an id with a folder and an id without one has resolved
C28_Witness ==
  /\ exportCall.stage = "done"
  /\ exportCall.outcome = "returned"
  /\ exportCall.exportedCount = 1
  /\ Len(exportCall.missingMods) = 1
  /\ Len(exportCall.modIds) = 2

\* ------------------------------------------------------------------ C22
\* what translate can return for a text: the text itself or its translation
TranslateResults(text) == { text, Translation(text) }

\* C22: a finished translateBatch call returns as many results as it got
\* texts, the i-th being what the translate call of the i-th text
\* returned, a result of translating that very text; for no texts it
\* returns an empty list and counters, cache and model are untouched.
C22_BatchKeepsOrder ==
  batch.stage = "done" =>
    /\ Len(batch.results) = Len(batch.texts)
    /\ \A i \in DOMAIN batch.texts :
         /\ batch.results[i] = batch.returned[i]
         /\ batch.results[i] \in TranslateResults(batch.texts[i])
    /\ Len(batch.texts) = 0 =>
         /\ batch.results = <<>>
         /\ stats.totalTranslations = 0
         /\ stats.cacheHits = 0
         /\ stats.cacheMisses = 0
         /\ rows = {}
         /\ inferCalls = 0
         /\ dbQueries = 0

\* a batch of more than one group has finished, with a translated text and
\* a text that fell back
C22_Witness ==
  /\ batch.stage = "done"
  /\ Len(batch.texts) > BatchSize
  /\ \E i, j \in DOMAIN batch.texts :
       /\ batch.results[i] = Translation(batch.texts[i])
       /\ batch.results[j] = batch.texts[j]

\* ------------------------------------------------------------------ C23
\* the translate calls of the batch that have started and not returned
InFlight == { i \in DOMAIN batch.pcs : batch.pcs[i] \in {"lookup", "model"} }
\* the group of the i-th text
GroupOf(i) == (i - 1) \div BatchSize

\* C23: at most 5 translate calls of a translateBatch call are in flight,
\* and a call has started only if every call of the groups before its own
\* has returned.
C23_GroupsOfFive ==
  /\ Cardinality(InFlight) <= BatchSize
  /\ \A i, j \in DOMAIN batch.pcs :
       (GroupOf(i) < GroupOf(j) /\ batch.pcs[j] # "waiting") =>
         batch.pcs[i] = "done"

\* the five calls of the first group have returned and the sixth text, the
\* second group, is in flight
C23_Witness ==
  /\ batch.stage = "running"
  /\ Len(batch.texts) > BatchSize
  /\ batch.first = BatchSize + 1
  /\ batch.pcs[BatchSize + 1] \in {"lookup", "model"}
  /\ \A i \in 1..BatchSize : batch.pcs[i] = "done"
  /\ Len(batch.results) = BatchSize
====
